---- MODULE Spec2Model ----
(***************************************************************************)
(* Communi-Pharm prototype (src/streamlit_app_prototype.py): the demand    *)
(* allocation model and the multi-round accounting engine simulate_round,  *)
(* driven by the session's Run Round / Next Round / Reset All buttons.     *)
(*                                                                         *)
(* Numbers.  The program computes in binary floating point; the model      *)
(* computes in fixed point with truncating division:                       *)
(*   money            whole THB                                            *)
(*   volumes          1/100 of a script or unit                            *)
(*   utilities        1/US        (US = 100000)                            *)
(*   shares, exp      1/SCALE     (SCALE = 10000)                          *)
(*   percentages      whole percent; card fee and expiry loss per mille;   *)
(*                    ar_interest_rate_pct in tenths of a percent          *)
(* All intermediate products stay inside 32 bits.                          *)
(***************************************************************************)
EXTENDS Integers, Sequences, FiniteSets, TLC

\* cfg: the module globals; round, states: st.session_state; call: the last
\* call of simulate_round; runs: the calls made so far; updates: the calls
\* made on the states under the present value of the round counter
VARIABLES cfg, round, states, call, runs, updates

vars == <<cfg, round, states, call, runs, updates>>

(* ---------------------------- bounds ----------------------------------- *)
\* number of simulate_round calls explored in one session
MaxRuns == 2
\* cap of the round counter
MaxRound == 2

(* ------------------------- fixed point --------------------------------- *)
US == 100 * 1000
SCALE == 10 * 1000

\* floor(a * b / c) for c > 0 without forming a * b
MulDiv(a, b, c) == (a \div c) * b + ((a % c) * b) \div c

Max(a, b) == IF a >= b THEN a ELSE b
Min(a, b) == IF a <= b THEN a ELSE b

RECURSIVE SumOver(_, _)
SumOver(f, S) ==
    IF S = {} THEN 0
    ELSE LET x == CHOOSE y \in S : TRUE IN f[x] + SumOver(f, S \ {x})

RECURSIVE MaxOver(_, _)
MaxOver(f, S) ==
    LET x == CHOOSE y \in S : TRUE
    IN IF S = {x} THEN f[x] ELSE Max(f[x], MaxOver(f, S \ {x}))

\* math.exp(-x / US) in 1/SCALE: steps of e^(-0.1), then the series on the rest
RECURSIVE ExpNeg(_)
ExpNeg(x) ==
    IF x >= US \div 10 THEN (ExpNeg(x - US \div 10) * 9048) \div SCALE
    ELSE LET t1 == (SCALE * x) \div US
             t2 == (t1 * x) \div (2 * US)
             t3 == (t2 * x) \div (3 * US)
             t4 == (t3 * x) \div (4 * US)
         IN SCALE - t1 + t2 - t3 + t4

(* ---------------------- city and coefficients -------------------------- *)
LOCATIONS == <<"MEDICAL_CENTER", "NEIGHBORHOOD", "SHOPPING_CENTER">>

LocationSet == {LOCATIONS[i] : i \in 1..Len(LOCATIONS)}

CITY_DEMAND ==
    [MEDICAL_CENTER  |-> [rx_scripts |-> 2200, other_units |-> 2600],
     NEIGHBORHOOD    |-> [rx_scripts |-> 1800, other_units |-> 3400],
     SHOPPING_CENTER |-> [rx_scripts |-> 1000, other_units |-> 4200]]

LOCATION_BASE_UTILITY ==
    [MEDICAL_CENTER |-> 20000, NEIGHBORHOOD |-> 10000, SHOPPING_CENTER |-> 0]

BASE == [rx_ingredient_cost |-> 300, other_unit_cost |-> 120]

ELASTIC ==
    [beta_price_rx |-> -400, beta_price_other |-> -150, beta_hours |-> 1000,
     beta_promo |-> 3, beta_service |-> 5000, beta_thirdparty |-> 6000,
     beta_hmo |-> 9000,
     card_share |-> 55, card_fee_pct |-> 18, expiry_loss_pct_of_cogs |-> 4,
     credit_sales_share |-> 30, ar_collection_rate |-> 50,
     periods_per_year |-> 12]

\* the module globals a call of simulate_round reads
Globals == [CITY_DEMAND |-> CITY_DEMAND, BASE |-> BASE, ELASTIC |-> ELASTIC]

(* --------------------------- records ----------------------------------- *)
\* Decisions(**d): the 37 form values in the order of `labels`
Decisions(v) ==
    [location |-> v[1], rx_markup_pct |-> v[2], rx_fee_thb |-> v[3],
     rx_copay_discount_thb |-> v[4], delivery |-> v[5],
     patient_records |-> v[6], store_credit |-> v[7],
     hours_per_week |-> v[8], promo_budget_thb |-> v[9],
     promo_rx_pct |-> v[10], invest_thb |-> v[11], invest_project |-> v[12],
     withdraw_thb |-> v[13], withdraw_project |-> v[14],
     other_markup_pct |-> v[15], rx_purchases_thb |-> v[16],
     other_purchases_thb |-> v[17], n_pharmacists |-> v[18],
     pharm_pay_rate |-> v[19], n_clerks |-> v[20], clerk_pay_rate |-> v[21],
     manager_salary |-> v[22], manager_time_rx_pct |-> v[23],
     manager_hours_per_week |-> v[24], mortgage_payment |-> v[25],
     sent_to_collections |-> v[26], min_cash_balance |-> v[27],
     rx_returns_thb |-> v[28], other_returns_thb |-> v[29],
     ap_payment_thb |-> v[30], lt_debt_written_thb |-> v[31],
     lt_debt_payment_thb |-> v[32], ar_interest_rate_pct |-> v[33],
     life_insurance |-> v[34], health_insurance |-> v[35],
     third_party |-> v[36], hmo |-> v[37]]

StoreState ==
    [cash |-> 200000, ar |-> 0, ap |-> 0, inventory_value |-> 200000,
     lt_debt |-> 0, fixed_assets |-> 0]

(* ----------------------- utility functions ----------------------------- *)
rx_effective_price(g, d) ==
    Max(MulDiv(g.BASE.rx_ingredient_cost, 100 + d.rx_markup_pct, 100)
          + d.rx_fee_thb - d.rx_copay_discount_thb, 0)

other_price(g, d) == MulDiv(g.BASE.other_unit_cost, 100 + d.other_markup_pct, 100)

service_score(d) == d.delivery + d.patient_records + d.store_credit

utility_rx(g, d) ==
    LOCATION_BASE_UTILITY[d.location]
      + g.ELASTIC.beta_price_rx * rx_effective_price(g, d)
      + g.ELASTIC.beta_hours * d.hours_per_week
      + MulDiv(g.ELASTIC.beta_promo * d.promo_budget_thb, 200 + d.promo_rx_pct, 200)
      + g.ELASTIC.beta_service * service_score(d)
      + g.ELASTIC.beta_thirdparty * d.third_party
      + g.ELASTIC.beta_hmo * d.hmo

utility_other(g, d) ==
    LOCATION_BASE_UTILITY[d.location]
      + g.ELASTIC.beta_price_other * other_price(g, d)
      + g.ELASTIC.beta_hours * d.hours_per_week
      + g.ELASTIC.beta_promo * d.promo_budget_thb
      + g.ELASTIC.beta_service * service_score(d)

\* the empty mapping {}
EmptyMap == [k \in {} |-> 0]

\* a mapping as a table of its values, each computed once
Table(f) == f @@ EmptyMap

\* softmax_shares returning the exponentials without dividing by their sum
softmax_unnormalised(utilities) ==
    IF DOMAIN utilities = {} THEN EmptyMap
    ELSE LET K == DOMAIN utilities
             m == MaxOver(utilities, K)
         IN [k \in K |-> ExpNeg(m - utilities[k])]

softmax_shares(utilities) ==
    IF DOMAIN utilities = {} THEN EmptyMap
    ELSE LET K == DOMAIN utilities
             m == MaxOver(utilities, K)
             exps == Table([k \in K |-> ExpNeg(m - utilities[k])])
             s == SumOver(exps, K)
         IN Table([k \in K |-> IF s > 0 THEN (SCALE * exps[k]) \div s ELSE 0])

(* ------------------------ one round ------------------------------------ *)
\* dict.get(k, default)
Get(m, k, dflt) == IF k \in DOMAIN m THEN m[k] ELSE dflt

\* round(u, 4) of a utility: to the nearest 10/US, halves to the even digit
Round4(u) ==
    LET r == u % 10
        lo == u - r
    IN IF r < 5 THEN lo
       ELSE IF r > 5 THEN lo + 10
       ELSE IF (lo \div 10) % 2 = 0 THEN lo ELSE lo + 10

\* by_loc, shares_rx and shares_oth of simulate_round
by_loc(decisions, loc) == {name \in DOMAIN decisions : decisions[name].location = loc}

shares_rx(g, decisions) ==
    Table([loc \in LocationSet |->
        softmax_shares(Table([name \in by_loc(decisions, loc) |-> utility_rx(g, decisions[name])]))])

shares_oth(g, decisions) ==
    Table([loc \in LocationSet |->
        softmax_shares(Table([name \in by_loc(decisions, loc) |-> utility_other(g, decisions[name])]))])

\* credit_share given to every store, whatever its store_credit flag
CreditShareAlways(g, d) == g.ELASTIC.credit_sales_share

\* credit_share: the part of the sales that goes to receivables
CreditShare(g, d) == IF d.store_credit = 1 THEN g.ELASTIC.credit_sales_share ELSE 0

\* ar_collections, taken on the balance the round starts with
ArCollections(g, ar) == MulDiv(ar, g.ELASTIC.ar_collection_rate, 100)

\* a collection base that already holds this round's credit sales
CollectableArWithNew(ar, new_ar) == ar + new_ar

\* states[name].ar as the collection reads it: the balance the round starts
\* with, this round's credit sales not yet added
CollectableAr(ar, new_ar) == ar

\* ar_interest_income charged whatever the store_credit flag
ArInterestAlways(g, d, ar) ==
    MulDiv(ar, d.ar_interest_rate_pct, 1000) \div g.ELASTIC.periods_per_year

\* ar_interest_income on the balance left after collection
ArInterest(g, d, ar) ==
    IF d.store_credit = 1
    THEN MulDiv(ar, d.ar_interest_rate_pct, 1000) \div g.ELASTIC.periods_per_year
    ELSE 0

\* states[name].inventory_value += net_purchases - cogs - expiry_loss
InventoryAfter(inv, net_purchases, cogs, expiry_loss) ==
    inv + net_purchases - cogs - expiry_loss

\* ap_payment paid as requested, not capped by the payables
ApPaymentUncapped(d, ap) == d.ap_payment_thb

\* ap_payment, against the payables after this round's purchases
ApPayment(d, ap) == Min(d.ap_payment_thb, ap)

\* states[name].lt_debt after write-off and payment
LtDebtAfter(lt_debt, d) ==
    Max(lt_debt - d.lt_debt_written_thb - d.lt_debt_payment_thb, 0)

\* sent_to_agency as requested, not capped by the receivables
SentToAgencyUncapped(d, ar) == d.sent_to_collections

\* sent_to_agency, against the receivables of the moment
SentToAgency(d, ar) == Min(d.sent_to_collections, ar)

\* labor_cash with weeks = 4.33
LaborCash(d) ==
    MulDiv(d.n_pharmacists * d.pharm_pay_rate * d.hours_per_week, 433, 100)
      + MulDiv(d.n_clerks * d.clerk_pay_rate * d.hours_per_week, 433, 100)
      + d.manager_salary

\* cash_delta that forgets the labour cost
CashDeltaNoLabor(sales, coll, interest, invest, debt, mortgage, promo, ap_payment, labor_cash) ==
    sales + coll + interest + invest + debt + mortgage + promo - ap_payment

\* cash_delta
CashDelta(sales, coll, interest, invest, debt, mortgage, promo, ap_payment, labor_cash) ==
    sales + coll + interest + invest + debt + mortgage + promo - ap_payment - labor_cash

\* a top-up that only lifts a negative balance to zero
OverdraftToZero(cash, d) == IF cash < 0 THEN 0 - cash ELSE 0

\* the top-up of the minimum cash balance policy
Overdraft(cash, d) ==
    IF cash < d.min_cash_balance THEN d.min_cash_balance - cash ELSE 0

\* The body of the per-store loop for one store: its next Store State, its
\* results record, and whether the body raised.  An unknown location raises at
\* the CITY_DEMAND lookup, before the store is touched; periods_per_year = 0
\* raises at the interest division, after the collection was taken off ar.
StoreRound(g, name, d, s, shRx, shOth) ==
    IF d.location \notin LocationSet
    THEN [failed |-> TRUE, state |-> s, res |-> EmptyMap]
    ELSE
    LET loc == d.location
        rx_scripts == (g.CITY_DEMAND[loc].rx_scripts * Get(shRx[loc], name, 0)) \div 100
        other_units == (g.CITY_DEMAND[loc].other_units * Get(shOth[loc], name, 0)) \div 100
        rx_p == rx_effective_price(g, d)
        oth_p == other_price(g, d)
        rx_sales == MulDiv(rx_scripts, rx_p, 100)
        other_sales == MulDiv(other_units, oth_p, 100)
        sales_total == rx_sales + other_sales
        cogs == MulDiv(rx_scripts, g.BASE.rx_ingredient_cost, 100)
                  + MulDiv(other_units, g.BASE.other_unit_cost, 100)
        expiry_loss == MulDiv(cogs, g.ELASTIC.expiry_loss_pct_of_cogs, 1000)
        merchant_fee == MulDiv(sales_total, g.ELASTIC.card_share * g.ELASTIC.card_fee_pct, 100000)
        credit_share == CreditShare(g, d)
        cash_now == MulDiv(sales_total, 100 - credit_share, 100)
        cash_in_sales == cash_now - merchant_fee
        new_ar == MulDiv(sales_total, credit_share, 100)
        ar_collections == ArCollections(g, CollectableAr(s.ar, new_ar))
        ar1 == s.ar - ar_collections
    IN IF d.store_credit = 1 /\ g.ELASTIC.periods_per_year = 0
       THEN [failed |-> TRUE, state |-> [s EXCEPT !.ar = ar1], res |-> EmptyMap]
       ELSE
       LET ar_interest_income == ArInterest(g, d, ar1)
           ar2 == ar1 + ar_interest_income
           ar3 == ar2 + new_ar
           net_purchases == d.rx_purchases_thb + d.other_purchases_thb
                              - d.rx_returns_thb - d.other_returns_thb
           inventory == InventoryAfter(s.inventory_value, net_purchases, cogs, expiry_loss)
           ap1 == s.ap + Max(net_purchases, 0)
           ap_payment == ApPayment(d, ap1)
           ap2 == ap1 - ap_payment
           fixed == s.fixed_assets + d.invest_thb - d.withdraw_thb
           cash_flow_invest == d.withdraw_thb - d.invest_thb
           lt_debt == LtDebtAfter(s.lt_debt, d)
           cash_flow_debt == 0 - d.lt_debt_payment_thb
           cash_flow_mortgage == 0 - d.mortgage_payment
           sent_to_agency == SentToAgency(d, ar3)
           ar4 == ar3 - sent_to_agency
           cash_flow_promo == 0 - d.promo_budget_thb
           labor_cash == LaborCash(d)
           cash_delta == CashDelta(cash_in_sales, ar_collections, ar_interest_income,
                                   cash_flow_invest, cash_flow_debt, cash_flow_mortgage,
                                   cash_flow_promo, ap_payment, labor_cash)
           cash1 == s.cash + cash_delta
           overdraft == Overdraft(cash1, d)
           cash2 == cash1 + overdraft
           gp == sales_total - cogs - expiry_loss
           net_profit == gp - (merchant_fee + d.promo_budget_thb + labor_cash)
       IN [failed |-> FALSE,
           state |-> [cash |-> cash2, ar |-> ar4, ap |-> ap2,
                      inventory_value |-> inventory, lt_debt |-> lt_debt,
                      fixed_assets |-> fixed],
           \* money is whole THB and volumes 1/100, where round(x, 2) changes nothing
           res |-> [location |-> loc, rx_scripts |-> rx_scripts,
                    other_units |-> other_units, rx_price |-> rx_p,
                    other_price |-> oth_p, sales_total |-> sales_total,
                    cogs |-> cogs, expiry_loss |-> expiry_loss,
                    merchant_fee |-> merchant_fee,
                    promo_cost |-> d.promo_budget_thb, labor_cash |-> labor_cash,
                    gross_profit |-> gp, net_profit |-> net_profit,
                    cash_in_sales |-> cash_in_sales, ar_new |-> new_ar,
                    ar_collections |-> ar_collections,
                    ar_interest_income |-> ar_interest_income,
                    ap_payment |-> ap_payment, invest |-> d.invest_thb,
                    withdraw |-> d.withdraw_thb,
                    mortgage_payment |-> d.mortgage_payment,
                    lt_debt_payment |-> d.lt_debt_payment_thb,
                    sent_to_agency |-> sent_to_agency,
                    overdraft_topup |-> overdraft,
                    cash_end |-> cash2, ar_end |-> ar4, ap_end |-> ap2,
                    inventory_end |-> inventory, lt_debt_end |-> lt_debt,
                    fixed_assets_end |-> fixed,
                    u_rx |-> Round4(utility_rx(g, d)),
                    u_other |-> Round4(utility_other(g, d))]]

\* a read that returns the state of one fixed store, whichever is asked for
StateOfFirst(st, name) == st[CHOOSE n \in DOMAIN st : \A m \in DOMAIN st : n <= m]

\* s = states[name]: the Store State the loop body works on
StateOf(st, name) == st[name]

\* a write that lands on every store of the states dict
CommitToAll(st, name, s) == [n \in DOMAIN st |-> s]

\* states[name].<field> = ...: the writes of the loop body, all on states[name]
Commit(st, name, s) == [st EXCEPT ![name] = s]

\* for name, d in decisions.items(): the stores in the mapping's iteration
\* order, each mutating states[name] in place; a raise ends the call
RECURSIVE StoreLoop(_, _, _, _, _, _, _, _)
StoreLoop(g, decisions, order, i, st, results, shRx, shOth) ==
    IF i > Len(order) THEN [failed |-> FALSE, states |-> st, results |-> results]
    ELSE LET name == order[i]
             out == StoreRound(g, name, decisions[name], StateOf(st, name), shRx, shOth)
             st2 == Commit(st, name, out.state)
         IN IF out.failed
            THEN [failed |-> TRUE, states |-> st2, results |-> EmptyMap]
            ELSE StoreLoop(g, decisions, order, i + 1, st2,
                           [n \in DOMAIN results \cup {name} |->
                               IF n = name THEN out.res ELSE results[n]],
                           shRx, shOth)

\* simulate_round(decisions, states) under the globals g; `order` lists the
\* keys of decisions in iteration order
simulate_round(g, decisions, order, st) ==
    StoreLoop(g, decisions, order, 1, st, EmptyMap,
              shares_rx(g, decisions), shares_oth(g, decisions))

(* --------------------------- session ----------------------------------- *)
\* range(7): Store_1 .. Store_7, written 1 .. 7
NumStores == 7
Stores == 1..NumStores

\* the order in which the form inserts the stores into the decisions dict
FormOrder == [i \in 1..NumStores |-> i]

\* the `defaults` table: one row of form values per store
defaults ==
    << <<"MEDICAL_CENTER",22,15,0,1,1,0,60,20000,5,0,0,0,0,35,300000,200000,2,350,2,120,50000,40,40,0,0,100000,0,0,200000,0,0,20,0,0,1,0>>,
       <<"MEDICAL_CENTER",25,20,0,1,0,0,60,20000,5,0,0,0,0,35,300000,200000,2,350,2,120,50000,40,40,0,0,100000,0,0,200000,0,0,20,0,0,1,0>>,
       <<"MEDICAL_CENTER",28,15,5,1,1,1,64,30000,10,0,0,0,0,40,300000,200000,2,350,2,120,50000,40,40,0,0,100000,0,0,200000,0,0,20,1,1,1,1>>,
       <<"NEIGHBORHOOD",20,10,0,0,1,0,56,10000,0,0,0,0,0,30,100000,80000,2,350,1,120,30000,30,40,0,0,100000,0,0,50000,0,0,20,0,0,0,0>>,
       <<"NEIGHBORHOOD",24,15,0,1,0,1,60,20000,5,0,0,0,0,35,200000,150000,2,350,2,120,40000,40,40,0,0,100000,0,0,100000,0,0,20,0,0,1,0>>,
       <<"SHOPPING_CENTER",26,25,10,1,1,1,72,30000,10,0,0,0,0,40,300000,200000,2,350,2,120,60000,40,40,0,0,100000,0,0,200000,0,0,20,1,1,1,0>>,
       <<"SHOPPING_CENTER",18,10,0,0,0,0,56,10000,0,0,0,0,0,30,80000,60000,1,350,1,120,25000,20,30,0,0,50000,0,0,30000,0,0,20,0,0,0,0>> >>

Default(i) == Decisions(defaults[i])

\* a form with every number and every flag at 0
NoActivity(loc) == Decisions([k \in 1..37 |-> IF k = 1 THEN loc ELSE 0])

\* a form that buys nothing, returns stock, overpays its payables and its
\* debt, sends more to the agency than it is owed and invests past its cash
Stress(i) ==
    [Default(i) EXCEPT !.rx_purchases_thb = 0, !.other_purchases_thb = 0,
                       !.rx_returns_thb = 30000, !.other_returns_thb = 20000,
                       !.ap_payment_thb = 400000, !.lt_debt_written_thb = 10000,
                       !.lt_debt_payment_thb = 20000, !.mortgage_payment = 30000,
                       !.sent_to_collections = 1000000, !.invest_thb = 500000,
                       !.withdraw_thb = 10000]

\* the values tried in the form of Store_3
Store3Choices == {Default(3), NoActivity("MEDICAL_CENTER"), Stress(3)}

\* the values tried with them: the locations of Store_6 and Store_7 and the
\* store_credit flag of Store_5.  As in the table; Store_7 in the
\* neighbourhood (Store_6 alone) and Store_5 without credit; both in the
\* neighbourhood (the shopping centre empty)
Variants == {<<"SHOPPING_CENTER", "SHOPPING_CENTER", 1>>,
             <<"SHOPPING_CENTER", "NEIGHBORHOOD", 0>>,
             <<"NEIGHBORHOOD", "NEIGHBORHOOD", 1>>}

\* stores[f"Store_{i+1}"] = Decisions(**d) for the seven stores
Form(d3, v) ==
    [i \in Stores |->
        IF i = 3 THEN d3
        ELSE IF i = 5 THEN [Default(5) EXCEPT !.store_credit = v[3]]
        ELSE IF i = 6 THEN [Default(6) EXCEPT !.location = v[1]]
        ELSE IF i = 7 THEN [Default(7) EXCEPT !.location = v[2]]
        ELSE Default(i)]

FormInputs == {Form(d3, v) : d3 \in Store3Choices, v \in Variants}

\* the sidebar sets BASE and ELASTIC entries on every rerun; the values tried
SidebarChoices ==
    {Globals,
     [Globals EXCEPT !.BASE.rx_ingredient_cost = 310,
                     !.ELASTIC.beta_price_rx = 100,
                     !.ELASTIC.beta_price_other = 0,
                     !.ELASTIC.card_share = 100,
                     !.ELASTIC.credit_sales_share = 100,
                     !.ELASTIC.ar_collection_rate = 25]}

\* the record of the last call of simulate_round: what it was given and
\* what it returned or left behind
NoCall == [status |-> "none", g |-> Globals, decisions |-> EmptyMap,
           order |-> <<>>, start |-> EmptyMap, results |-> EmptyMap,
           shares_rx |-> EmptyMap, shares_oth |-> EmptyMap]

CallRecord(g, decisions, order, st, out) ==
    [status |-> IF out.failed THEN "failed" ELSE "ok", g |-> g,
     decisions |-> decisions, order |-> order, start |-> st,
     results |-> out.results,
     shares_rx |-> shares_rx(g, decisions), shares_oth |-> shares_oth(g, decisions)]

InitialStates == [i \in Stores |-> StoreState]

Init ==
    /\ cfg = Globals
    /\ round = 1
    /\ states = InitialStates
    /\ call = NoCall
    /\ runs = 0
    /\ updates = 0

Sidebar ==
    /\ \E g \in SidebarChoices : cfg' = g
    /\ UNCHANGED <<round, states, call, runs, updates>>

RunRound ==
    /\ runs < MaxRuns
    /\ \E stores \in FormInputs :
          LET out == simulate_round(cfg, stores, FormOrder, states)
          IN /\ states' = out.states
             /\ call' = CallRecord(cfg, stores, FormOrder, states, out)
    /\ runs' = runs + 1
    /\ updates' = updates + 1
    /\ UNCHANGED <<cfg, round>>

NextRound ==
    /\ round < MaxRound
    /\ round' = round + 1
    /\ updates' = 0
    /\ UNCHANGED <<cfg, states, call, runs>>

\* a reset that puts the round counter back and keeps the Store States
ResetRoundOnly ==
    /\ round' = 1
    /\ call' = NoCall
    /\ updates' = 0
    /\ UNCHANGED <<cfg, runs, states>>

\* if colC.button("Reset All")
ResetAll ==
    /\ round' = 1
    /\ states' = InitialStates
    /\ call' = NoCall
    /\ updates' = 0
    /\ UNCHANGED <<cfg, runs>>

Next == Sidebar \/ RunRound \/ NextRound \/ ResetAll

Spec == Init /\ [][Next]_vars

(* ----------------------- the engine called directly -------------------- *)
\* the globals simulate_round may be called under: as written, with
\* periods_per_year = 0, and with a negative demand total
EngineGlobals ==
    {Globals,
     [Globals EXCEPT !.ELASTIC.periods_per_year = 0],
     [Globals EXCEPT !.CITY_DEMAND.MEDICAL_CENTER.rx_scripts = -2200]}

\* the Store States of a session after one round of the table's values
AfterFirstRound ==
    simulate_round(Globals, [i \in Stores |-> Default(i)], FormOrder, InitialStates).states

\* the stores a direct call is made for
EngineStores == {1, 3, 6}

\* the iteration orders of a decisions dict over some of those stores
EngineOrders ==
    {o \in UNION {[1..k -> EngineStores] : k \in 1..Cardinality(EngineStores)} :
        \A i, j \in DOMAIN o : i # j => o[i] # o[j]}

\* a Decision Record of the table, as it is or naming a location not in LOCATIONS
EngineChoices(i) == {Default(i), [Default(i) EXCEPT !.location = "AIRPORT"]}

\* the decisions dicts with the keys of order o
EngineDecisions(o) ==
    LET K == {o[i] : i \in DOMAIN o}
    IN {f \in [K -> UNION {EngineChoices(i) : i \in K}] :
           \A i \in K : f[i] \in EngineChoices(i)}

EngineInit ==
    /\ cfg \in EngineGlobals
    /\ round = 1
    /\ states \in {InitialStates, AfterFirstRound}
    /\ call = NoCall
    /\ runs = 0
    /\ updates = 0

\* one call simulate_round(decisions, states); a raise leaves the states as
\* the loop had mutated them
EngineCall ==
    /\ call.status = "none"
    /\ \E o \in EngineOrders :
         \E decisions \in EngineDecisions(o) :
            LET out == simulate_round(cfg, decisions, o, states)
            IN /\ states' = out.states
               /\ call' = CallRecord(cfg, decisions, o, states, out)
    /\ runs' = runs + 1
    /\ updates' = updates + 1
    /\ UNCHANGED <<cfg, round>>

EngineNext == EngineCall

EngineSpec == EngineInit /\ [][EngineNext]_vars

\* a caller that makes one call of simulate_round for some of the stores and
\* moves the round counter on
FrameNext == EngineCall \/ NextRound

FrameSpec == EngineInit /\ [][FrameNext]_vars

(* ============================ properties ================================ *)
\* the last call returned
Returned == call.status = "ok"

\* the stores of the last call
Called == DOMAIN call.decisions

Abs(x) == IF x < 0 THEN 0 - x ELSE x

\* a share mapping over the stores K sums to 1, to the resolution of a share
SharesSumToOne(sh, K) ==
    LET t == SumOver(sh, K) IN t <= SCALE /\ SCALE - t < Cardinality(K)

\* the volumes of the stores K sum to the demand, to the same resolution
VolumesSumTo(field, K, demand) ==
    LET t == SumOver([n \in K |-> call.results[n][field]], K)
    IN t <= 100 * demand /\ 100 * demand - t < Cardinality(K) * (demand \div 100 + 1)

\* C1: at every location that some decision names, the rx shares and the
\* other shares of the stores there each sum to 1 and their rx_scripts and
\* other_units sum to the location's demand; at a location no decision names
\* both share mappings are empty and no store's volume comes from it.
C1_SharesSumToOne ==
    Returned =>
      \A loc \in LocationSet :
        LET K == by_loc(call.decisions, loc)
        IN /\ DOMAIN call.shares_rx[loc] = K
           /\ DOMAIN call.shares_oth[loc] = K
           /\ K # {} =>
                /\ SharesSumToOne(call.shares_rx[loc], K)
                /\ SharesSumToOne(call.shares_oth[loc], K)
                /\ VolumesSumTo("rx_scripts", K, call.g.CITY_DEMAND[loc].rx_scripts)
                /\ VolumesSumTo("other_units", K, call.g.CITY_DEMAND[loc].other_units)
           /\ K = {} =>
                /\ call.shares_rx[loc] = EmptyMap
                /\ call.shares_oth[loc] = EmptyMap
                /\ \A n \in Called : call.results[n].location # loc

\* a call with an empty location, a location of one store and one of several
C1_Witness ==
    /\ Returned
    /\ \E loc \in LocationSet : by_loc(call.decisions, loc) = {}
    /\ \E loc \in LocationSet : Cardinality(by_loc(call.decisions, loc)) >= 2
    /\ \E n \in Called : call.results[n].rx_scripts > 0

\* the cash a store has after step 15, from the reported terms
CashBeforeTopup(n) ==
    LET r == call.results[n]
    IN call.start[n].cash + r.cash_in_sales + r.ar_collections + r.ar_interest_income
         + (r.withdraw - r.invest) - r.lt_debt_payment - r.mortgage_payment
         - r.promo_cost - r.ap_payment - r.labor_cash

\* C3: for every store of a round, cash_end - cash_start is the sum of the
\* itemised cash terms plus the overdraft top-up of that round.
C3_CashConservation ==
    Returned =>
      \A n \in Called :
        /\ states[n].cash = CashBeforeTopup(n) + call.results[n].overdraft_topup
        /\ call.results[n].cash_end = states[n].cash

\* a store with every cash term at work, the top-up included
C3_Witness ==
    /\ Returned
    /\ \E n \in Called :
         LET r == call.results[n]
         IN /\ r.cash_in_sales > 0 /\ r.ar_collections > 0 /\ r.ar_interest_income > 0
            /\ r.invest > 0 /\ r.withdraw > 0 /\ r.lt_debt_payment > 0
            /\ r.mortgage_payment > 0 /\ r.promo_cost > 0 /\ r.ap_payment > 0
            /\ r.labor_cash > 0 /\ r.overdraft_topup > 0

\* C5: inventory_value of every store is >= 0 after every round.
C5_InventoryNonNegative == \A i \in Stores : states[i].inventory_value >= 0

\* C6: accounts receivable of every store is >= 0 after every round, and the
\* amount sent to the agency is min(requested, the receivables at that step).
C6_ArNonNegative ==
    /\ \A i \in Stores : states[i].ar >= 0
    /\ Returned =>
         \A n \in Called :
           LET r == call.results[n]
           IN /\ r.ar_end = states[n].ar
              /\ r.sent_to_agency
                   = Min(call.decisions[n].sent_to_collections, r.ar_end + r.sent_to_agency)

\* a store that asked to send more than it was owed, after collection,
\* interest and new credit sales
C6_Witness ==
    /\ Returned
    /\ \E n \in Called :
         LET r == call.results[n]
         IN /\ r.ar_collections > 0 /\ r.ar_interest_income > 0 /\ r.ar_new > 0
            /\ call.decisions[n].sent_to_collections > r.sent_to_agency
            /\ r.sent_to_agency > 0
            /\ r.ar_end = 0

\* net_purchases of a store's decision
NetPurchases(d) ==
    d.rx_purchases_thb + d.other_purchases_thb - d.rx_returns_thb - d.other_returns_thb

\* C7: accounts payable and long-term debt of every store are >= 0 after
\* every round; the payment applied is min(requested, payables after this
\* round's purchases) and the debt is max(0, prior - write-off - payment).
C7_ApAndDebtNonNegative ==
    /\ \A i \in Stores : states[i].ap >= 0 /\ states[i].lt_debt >= 0
    /\ Returned =>
         \A n \in Called :
           LET r == call.results[n]
               d == call.decisions[n]
               ap1 == call.start[n].ap + Max(NetPurchases(d), 0)
           IN /\ r.ap_payment = Min(d.ap_payment_thb, ap1)
              /\ states[n].ap = ap1 - r.ap_payment
              /\ states[n].lt_debt
                   = Max(0, call.start[n].lt_debt - d.lt_debt_written_thb - d.lt_debt_payment_thb)

\* a store whose requested payment exceeds its payables and whose write-off
\* and payment exceed its debt
C7_Witness ==
    /\ Returned
    /\ \E n \in Called :
         LET r == call.results[n]
             d == call.decisions[n]
         IN /\ d.ap_payment_thb > r.ap_payment /\ r.ap_payment > 0
            /\ states[n].ap = 0
            /\ d.lt_debt_written_thb + d.lt_debt_payment_thb > call.start[n].lt_debt

\* C8: after every round a store's cash is >= its min_cash_balance; below the
\* minimum after step 15 the top-up is the shortfall and cash_end the minimum,
\* otherwise the top-up is 0; payables and debt are what the payment and the
\* write-off leave, with no top-up in them.
C8_MinimumCash ==
    Returned =>
      \A n \in Called :
        LET r == call.results[n]
            d == call.decisions[n]
            c == CashBeforeTopup(n)
        IN /\ states[n].cash >= d.min_cash_balance
           /\ c < d.min_cash_balance =>
                r.overdraft_topup = d.min_cash_balance - c /\ states[n].cash = d.min_cash_balance
           /\ c >= d.min_cash_balance => r.overdraft_topup = 0 /\ states[n].cash = c
           /\ states[n].ap = call.start[n].ap + Max(NetPurchases(d), 0) - r.ap_payment
           /\ states[n].lt_debt
                = Max(0, call.start[n].lt_debt - d.lt_debt_written_thb - d.lt_debt_payment_thb)

\* one store topped up to a positive minimum and one above its minimum
C8_Witness ==
    /\ Returned
    /\ \E n \in Called :
         /\ call.results[n].overdraft_topup > 0
         /\ CashBeforeTopup(n) >= 0
         /\ call.decisions[n].min_cash_balance > 0
    /\ \E n \in Called :
         /\ call.results[n].overdraft_topup = 0
         /\ states[n].cash > call.decisions[n].min_cash_balance

\* C10: a store with store_credit = 0 has new_ar = 0 and ar_interest_income
\* = 0, and its cash from sales is its sales less the merchant fee.
C10_NoCreditNoReceivables ==
    Returned =>
      \A n \in Called :
        call.decisions[n].store_credit = 0 =>
          LET r == call.results[n]
          IN /\ r.ar_new = 0
             /\ r.ar_interest_income = 0
             /\ r.cash_in_sales = r.sales_total - r.merchant_fee

\* a store without credit that is still owed money, at a positive interest
\* rate, and sells
C10_Witness ==
    /\ Returned
    /\ \E n \in Called :
         /\ call.decisions[n].store_credit = 0
         /\ call.decisions[n].ar_interest_rate_pct > 0
         /\ call.start[n].ar > 1000
         /\ call.results[n].sales_total > 0

\* C2: whenever simulate_round fails, every store's Store State equals its
\* value at the start of the call.
C2_FailsBeforeMutation == call.status = "failed" => states = call.start

\* a Decision Record with every number and every flag at 0
IsNoActivity(d) == d = NoActivity(d.location)

\* ar_start * (1 - ar_collection_rate), to one unit of money
ArBledOff(n) ==
    Abs(states[n].ar
          - MulDiv(call.start[n].ar, 100 - call.g.ELASTIC.ar_collection_rate, 100)) <= 1

\* C4 as stated: a no-activity round leaves cash, ap, inventory_value,
\* lt_debt and fixed_assets at their starting values and sets
\* ar_end = ar_start * (1 - ar_collection_rate).
C4_NoActivityIdempotent ==
    Returned =>
      \A n \in Called :
        IsNoActivity(call.decisions[n]) =>
          /\ states[n].cash = call.start[n].cash
          /\ states[n].ap = call.start[n].ap
          /\ states[n].inventory_value = call.start[n].inventory_value
          /\ states[n].lt_debt = call.start[n].lt_debt
          /\ states[n].fixed_assets = call.start[n].fixed_assets
          /\ ArBledOff(n)

\* C4 amended: a no-activity round leaves ap, lt_debt and fixed_assets at
\* their starting values and sets ar_end = ar_start * (1 - ar_collection_rate);
\* cash rises by cash_in_sales + ar_collections (plus a top-up, which is 0
\* when the starting cash is >= 0) and inventory_value falls by cogs +
\* expiry_loss, for the demand the store is still allocated.
C4_NoActivityAmended ==
    Returned =>
      \A n \in Called :
        IsNoActivity(call.decisions[n]) =>
          LET r == call.results[n]
          IN /\ states[n].ap = call.start[n].ap
             /\ states[n].lt_debt = call.start[n].lt_debt
             /\ states[n].fixed_assets = call.start[n].fixed_assets
             /\ ArBledOff(n)
             /\ r.ar_new = 0 /\ r.ar_interest_income = 0 /\ r.sent_to_agency = 0
             /\ states[n].cash
                  = call.start[n].cash + r.cash_in_sales + r.ar_collections + r.overdraft_topup
             /\ call.start[n].cash >= 0 => r.overdraft_topup = 0
             /\ states[n].inventory_value
                  = call.start[n].inventory_value - r.cogs - r.expiry_loss

\* a no-activity store that is owed money and is still allocated demand
C4_Witness ==
    /\ Returned
    /\ \E n \in Called :
         /\ IsNoActivity(call.decisions[n])
         /\ call.start[n].ar > 1000
         /\ call.results[n].sales_total > 0
         /\ call.results[n].cogs > 0

\* the markup steps a price is raised by
MarkupSteps == {1, 20}

\* C9: among the stores of one location, with the other decisions fixed,
\* a strictly higher effective rx price gives the store a strictly lower rx
\* utility and rx share, and a strictly higher other price a strictly lower
\* other utility and other share.
C9_PriceMonotone ==
    Returned =>
      \A n \in Called : \A b \in MarkupSteps :
        LET g == call.g
            d == call.decisions[n]
            loc == d.location
            dRx == [d EXCEPT !.rx_markup_pct = @ + b]
            dOt == [d EXCEPT !.other_markup_pct = @ + b]
        IN Cardinality(by_loc(call.decisions, loc)) >= 2 =>
             /\ rx_effective_price(g, dRx) > rx_effective_price(g, d) =>
                  /\ utility_rx(g, dRx) < utility_rx(g, d)
                  /\ shares_rx(g, [call.decisions EXCEPT ![n] = dRx])[loc][n]
                       < call.shares_rx[loc][n]
             /\ other_price(g, dOt) > other_price(g, d) =>
                  /\ utility_other(g, dOt) < utility_other(g, d)
                  /\ shares_oth(g, [call.decisions EXCEPT ![n] = dOt])[loc][n]
                       < call.shares_oth[loc][n]

\* the same statement for the calls made with both price coefficients negative
C9_PriceMonotoneNegativeBeta ==
    (call.g.ELASTIC.beta_price_rx < 0 /\ call.g.ELASTIC.beta_price_other < 0)
      => C9_PriceMonotone

\* C11: in every round ar_collections is the receivables at the start of the
\* round times ar_collection_rate (10000 at rate 0.5 gives 5000 and leaves
\* 5000); it is taken off before the interest, which accrues on what is left,
\* and before this round's credit sales, which enter ar_end in full.
C11_CollectionOnPriorBalance ==
    /\ ArCollections(Globals, 10000) = 5000
    /\ Returned =>
         \A n \in Called :
           LET r == call.results[n]
               d == call.decisions[n]
               prior == call.start[n].ar
               left == prior - r.ar_collections
           IN /\ r.ar_collections = MulDiv(prior, call.g.ELASTIC.ar_collection_rate, 100)
              /\ r.ar_interest_income
                   = IF d.store_credit = 1
                     THEN MulDiv(left, d.ar_interest_rate_pct, 1000)
                            \div call.g.ELASTIC.periods_per_year
                     ELSE 0
              /\ r.ar_end + r.sent_to_agency = left + r.ar_interest_income + r.ar_new

\* a store that is owed money at the start, collects part of it, charges
\* interest and sells on credit in the same round
C11_Witness ==
    /\ Returned
    /\ \E n \in Called :
         LET r == call.results[n]
         IN /\ call.start[n].ar > 1000
            /\ r.ar_collections > 0 /\ r.ar_collections < call.start[n].ar
            /\ r.ar_interest_income > 0
            /\ r.ar_new > 0
            /\ r.ar_end > r.ar_new

\* the iteration orders of the same decisions dict as the last call
Reorderings ==
    {o \in EngineOrders : Len(o) = Len(call.order) /\ {o[i] : i \in DOMAIN o} = Called}

\* the Store States another store may hold when the call is made
OtherStates(m) == {InitialStates[m], AfterFirstRound[m]}

\* the Decision Records another store may hand in
OtherDecisions(m) ==
    {Default(m), Stress(m), NoActivity(call.decisions[m].location)}

\* the call `out` gives store n the results record and the next Store State
\* the last call gave it
SameFor(n, out) ==
    /\ ~out.failed
    /\ out.results[n] = call.results[n]
    /\ out.states[n] = states[n]

\* C12: the results record and the next Store State of a store are the same
\* for every iteration order of the decisions mapping, whatever Store State
\* any other store holds, and whatever a store at another location decides.
C12_OrderIndependent ==
    Returned =>
      \A n \in Called :
        /\ \A o \in Reorderings :
             SameFor(n, simulate_round(call.g, call.decisions, o, call.start))
        /\ \A m \in Called \ {n} : \A sm \in OtherStates(m) :
             SameFor(n, simulate_round(call.g, call.decisions, call.order,
                                       [call.start EXCEPT ![m] = sm]))
        /\ \A m \in Called \ {n} : \A dm \in OtherDecisions(m) :
             call.decisions[m].location # call.decisions[n].location =>
               SameFor(n, simulate_round(call.g, [call.decisions EXCEPT ![m] = dm],
                                         call.order, call.start))

\* a call over two stores of one location and one of another, iterated in an
\* order that is not the order of the store names, from states that differ
C12_Witness ==
    /\ Returned
    /\ Cardinality(Called) = 3
    /\ Cardinality(Reorderings) = 6
    /\ call.order[1] > call.order[2]
    /\ \E n, m \in Called :
         /\ n # m
         /\ call.decisions[n].location = call.decisions[m].location
         /\ call.start[n] # call.start[m]
         /\ call.results[n].rx_scripts > 0 /\ call.results[m].rx_scripts > 0
    /\ \E n, m \in Called : call.decisions[n].location # call.decisions[m].location

\* C13: for each round number the update simulate_round is applied to the
\* session's Store States exactly once before the round counter advances:
\* the counter never advances over a round without an update, and no round
\* number sees a second update.
C13_OneUpdatePerRound ==
    [][/\ round' = round + 1 => updates = 1
       /\ updates' <= 1]_vars

\* C14: after the Reset All action, whatever preceded it, the round counter
\* is 1, every one of the 7 stores has cash 200000, ar 0, ap 0,
\* inventory_value 200000, lt_debt 0 and fixed_assets 0, and the set of
\* stores is the one there was before.
C14_ResetRestoresInitial ==
    [][ResetAll =>
         /\ round' = 1
         /\ DOMAIN states' = DOMAIN states
         /\ DOMAIN states' = 1..7
         /\ \A i \in DOMAIN states' :
              states'[i] = [cash |-> 200000, ar |-> 0, ap |-> 0,
                            inventory_value |-> 200000, lt_debt |-> 0,
                            fixed_assets |-> 0]]_vars

\* the session just after a reset that followed as many rounds as are run
C14_Witness ==
    /\ runs = MaxRuns
    /\ call = NoCall
    /\ round = 1
    /\ states = InitialStates

\* C15: a call of simulate_round changes the Store State of no store that is
\* absent from the decisions mapping and leaves the market configuration
\* (demand, base costs, coefficients) and the round counter as they were;
\* Next Round changes the round counter and no Store State.
C15_Frame ==
    [][/\ EngineCall =>
            /\ \A i \in Stores \ DOMAIN call'.decisions : states'[i] = states[i]
            /\ DOMAIN states' = DOMAIN states
            /\ cfg' = cfg
            /\ round' = round
       /\ NextRound =>
            /\ states' = states
            /\ cfg' = cfg
            /\ round' = round + 1]_vars

\* after a call that changed the stores it was made for and left alone
\* stores that were already past their first round, and a Next Round
C15_Witness ==
    /\ Returned
    /\ round = 2
    /\ \E n \in Called : states[n] # call.start[n]
    /\ \E i \in Stores \ Called : states[i] # StoreState /\ states[i] = call.start[i]

====
